---- MODULE Spec2Model ----
(***************************************************************************)
(* Model of opengs/szstd: the seek table (seektable/table.go), its binary  *)
(* codec, the frame-splitting writer and the seekable reader (reader.go).  *)
(* Byte sequences are sequences of 0..255; Go's 0-based indices are kept   *)
(* in the state and shifted by one only where a TLA+ sequence is indexed.  *)
(***************************************************************************)
EXTENDS Integers, Sequences, FiniteSets, TLC

\* ------------------------------------------------------------------ bounds
\* Longest total input the writer is given.
MaxData == 3
\* Largest frame size F the writer is configured with.
MaxFrame == 2
\* Longest destination buffer handed to reader.Read.
MaxBuf == 2
\* Sink failures injected per writer.
MaxFaults == 1
\* Entries of a table whose serialization is checked.
MaxCodecEntries == 3
\* Entries of a table on which Find is checked (reaches the binary search).
MaxFindEntries == 33
\* Bytes before the seek table, and entries of the table, of a stream that a
\* reader is constructed over without a writer having produced it.
MaxRegion == 4
MaxStreamEntries == 2
\* Entries of a table that is appended to and overwritten between lookups.
MaxEditEntries == 3

\* ------------------------------------------------------------- small helpers
Min(a, b) == IF a < b THEN a ELSE b

Take(s, n) == SubSeq(s, 1, n)

Drop(s, n) == SubSeq(s, n + 1, Len(s))

\* s[lo:hi] of Go (0-based, hi exclusive).
Slice(s, lo, hi) == SubSeq(s, lo + 1, hi)

\* binary.LittleEndian.PutUint32
PutUint32(v) ==
    << v % 256, (v \div 256) % 256, (v \div 65536) % 256, (v \div 16777216) % 256 >>

\* binary.LittleEndian.Uint32
Uint32(b) == b[1] + 256 * b[2] + 65536 * b[3] + 16777216 * b[4]

\* ------------------------------------------------------------------- Table
\* type Table: the raw entry bytes, the sync.Once and the cached offset index.
EmptyTable == [entries |-> << >>, cached |-> FALSE, cachedOffsets |-> << >>]

\* TableOffset{}
ZeroOffset ==
    [EntryIndex |-> 0, EntryOffsetInCompressed |-> 0, EntryOffsetInDecompressed |-> 0]

NumEntries(t) == Len(t.entries) \div 8

GetEntry(t, index) ==
    LET offset == index * 8
    IN  [CompressedSize   |-> Uint32(Slice(t.entries, offset, offset + 4)),
         DecompressedSize |-> Uint32(Slice(t.entries, offset + 4, offset + 8))]

SetEntry(t, index, entry) ==
    LET offset == index * 8
        c == PutUint32(entry.CompressedSize)
        d == PutUint32(entry.DecompressedSize)
    IN  [t EXCEPT !.entries =
            [k \in 1..Len(@) |->
                IF k \in (offset + 1)..(offset + 4) THEN c[k - offset]
                ELSE IF k \in (offset + 5)..(offset + 8) THEN d[k - offset - 4]
                ELSE @[k]]]

AppendEntry(t, entry) ==
    LET grown == [t EXCEPT !.entries = @ \o <<0, 0, 0, 0, 0, 0, 0, 0>>]
    IN  SetEntry(grown, NumEntries(grown) - 1, entry)

Size(t) == Len(t.entries) + 8 + 9

\* The forward scan inside cached.Do: offsets[i] for i = from..NumEntries-1.
RECURSIVE ScanOffsets(_, _, _, _)
ScanOffsets(t, i, compressedOffset, decompressedOffset) ==
    IF i >= NumEntries(t) THEN << >>
    ELSE LET entry == GetEntry(t, i)
         IN  << [EntryIndex |-> i,
                 EntryOffsetInCompressed |-> compressedOffset,
                 EntryOffsetInDecompressed |-> decompressedOffset] >>
             \o ScanOffsets(t, i + 1,
                            compressedOffset + entry.CompressedSize,
                            decompressedOffset + entry.DecompressedSize)

\* sync.Once: the scan runs on the first call only.
CacheOffsets(t) ==
    IF t.cached THEN t
    ELSE [t EXCEPT !.cached = TRUE, !.cachedOffsets = ScanOffsets(t, 0, 0, 0)]

\* The linear scan with the upper end of the range included.
RECURSIVE FindLinearInclusive(_, _, _)
FindLinearInclusive(t, offset, k) ==
    IF k > Len(t.cachedOffsets) THEN [to |-> ZeroOffset, found |-> FALSE]
    ELSE LET to == t.cachedOffsets[k]
         IN  IF /\ to.EntryOffsetInDecompressed <= offset
                /\ offset <= to.EntryOffsetInDecompressed
                             + GetEntry(t, to.EntryIndex).DecompressedSize
             THEN [to |-> to, found |-> TRUE]
             ELSE FindLinearInclusive(t, offset, k + 1)

\* for _, to := range t.cachedOffsets { ... } starting at position k (1-based).
RECURSIVE FindLinear(_, _, _)
FindLinear(t, offset, k) ==
    IF k > Len(t.cachedOffsets) THEN [to |-> ZeroOffset, found |-> FALSE]
    ELSE LET to == t.cachedOffsets[k]
         IN  IF /\ to.EntryOffsetInDecompressed <= offset
                /\ offset < to.EntryOffsetInDecompressed
                            + GetEntry(t, to.EntryIndex).DecompressedSize
             THEN [to |-> to, found |-> TRUE]
             ELSE FindLinear(t, offset, k + 1)

\* The binary search with the loop condition low < high.
RECURSIVE FindBinaryStrict(_, _, _, _)
FindBinaryStrict(t, offset, low, high) ==
    IF low >= high THEN [to |-> ZeroOffset, found |-> FALSE]
    ELSE LET mid == (low + high) \div 2
             to == t.cachedOffsets[mid + 1]
             entry == GetEntry(t, to.EntryIndex)
         IN  IF /\ to.EntryOffsetInDecompressed <= offset
                /\ offset < to.EntryOffsetInDecompressed + entry.DecompressedSize
             THEN [to |-> to, found |-> TRUE]
             ELSE IF offset < to.EntryOffsetInDecompressed
             THEN FindBinaryStrict(t, offset, low, mid - 1)
             ELSE FindBinaryStrict(t, offset, mid + 1, high)

\* for low <= high { mid := (low + high) / 2 ... }
RECURSIVE FindBinary(_, _, _, _)
FindBinary(t, offset, low, high) ==
    IF low > high THEN [to |-> ZeroOffset, found |-> FALSE]
    ELSE LET mid == (low + high) \div 2
             to == t.cachedOffsets[mid + 1]
             entry == GetEntry(t, to.EntryIndex)
         IN  IF /\ to.EntryOffsetInDecompressed <= offset
                /\ offset < to.EntryOffsetInDecompressed + entry.DecompressedSize
             THEN [to |-> to, found |-> TRUE]
             ELSE IF offset < to.EntryOffsetInDecompressed
             THEN FindBinary(t, offset, low, mid - 1)
             ELSE FindBinary(t, offset, mid + 1, high)

\* Tables shorter than this are scanned linearly.
LinearThreshold == 32

\* The search of Find on a table whose cache has been computed.
FindCached(t, offset) ==
    IF Len(t.cachedOffsets) < LinearThreshold
    THEN FindLinear(t, offset, 1)
    ELSE FindBinary(t, offset, 0, Len(t.cachedOffsets) - 1)

\* Table.Find: the table after the call (its cache) and the result.
Find(t, offset) ==
    LET c == CacheOffsets(t)
        r == FindCached(c, offset)
    IN  [t |-> c, to |-> r.to, found |-> r.found]

\* Table.OffsetsByIndex: indexing outside the cached slice panics.
OffsetsByIndex(t, index) ==
    LET c == CacheOffsets(t)
    IN  IF index < 0 \/ index >= Len(c.cachedOffsets)
        THEN [t |-> c, to |-> ZeroOffset, panic |-> TRUE]
        ELSE [t |-> c, to |-> c.cachedOffsets[index + 1], panic |-> FALSE]

\* ---------------------------------------------------------- byte sink (io.Writer)
\* What a failing sink write may still have taken: nothing, or one byte.
PartialWrites == {0, 1}

\* w.Write(p) on the caller's sink: all of p is appended, or, when the sink
\* fails, a prefix of at most `partial` bytes is and an error is returned.
SinkWrite(snk, p, fail, partial) ==
    IF fail
    THEN LET k == Min(partial, Len(p))
         IN  [sink |-> snk \o Take(p, k), n |-> k, err |-> TRUE]
    ELSE [sink |-> snk \o p, n |-> Len(p), err |-> FALSE]

\* ------------------------------------------------------------- TableCodec
headerMagicNumber == 407710302

\* footerMagicNumber 0x8F92EAB1 as binary.LittleEndian.PutUint32 lays it out.
footerMagicBytes == <<177, 234, 146, 143>>

\* uint32 value of 8 + (numEntries*8) + 9; 2147483647 stands for every value
\* of 2^31 or more (larger than any modelled stream).
SeekTableSizeU32(numEntries) ==
    LET m == numEntries % 536870912
    IN  IF m = 536870911 THEN 9
        ELSE IF m = 536870910 THEN 1
        ELSE IF m >= 268435454 THEN 2147483647
        ELSE 8 + (m * 8) + 9

\* uint32 value of (numEntries*8) + 9, saturated the same way.
DeclaredSizeU32(numEntries) ==
    LET m == numEntries % 536870912
    IN  IF m = 536870911 THEN 1
        ELSE IF m >= 268435455 THEN 2147483647
        ELSE (m * 8) + 9

\* uint32 value of numEntries*8, saturated the same way.
EntriesLenU32(numEntries) ==
    LET m == numEntries % 536870912
    IN  IF m >= 268435456 THEN 2147483647 ELSE m * 8

\* The emptiness loop: for i := 0; i < numEntries; i += 4 { entriesData[0..3] }.
\* "ok", "empty" (the error return) or "panic" (index out of range). Every
\* iteration tests the same four bytes, so the first iteration decides: the
\* loop is not unrolled over the (up to 2^29 and more) iterations after it.
EmptyChunkLoop(entriesData, numEntries, i) ==
    IF i >= numEntries THEN "ok"
    ELSE IF Len(entriesData) < 4 THEN "panic"
    ELSE IF /\ entriesData[1] = 0 /\ entriesData[2] = 0
            /\ entriesData[3] = 0 /\ entriesData[4] = 0
         THEN "empty"
         ELSE "ok"

TableError(e) == [err |-> e, table |-> EmptyTable]

\* ReadTableFromReadSeeker over an in-memory source (bytes.Reader): a seek
\* before the start fails, a read past the end fails. err = "" is nil.
ReadTableFromReadSeeker(data) ==
    LET len == Len(data)
        footer == Slice(data, len - 9, len)
        numEntries == Uint32(Slice(footer, 0, 4))
        seekTableSize == SeekTableSizeU32(numEntries)
        start == len - seekTableSize
        header == Slice(data, start, start + 8)
        frameSize == Uint32(Slice(header, 4, 8))
        entriesLen == EntriesLenU32(numEntries)
        entriesData == Slice(data, start + 8, start + 8 + entriesLen)
        chunks == EmptyChunkLoop(entriesData, numEntries, 0)
    IN  IF len - 9 < 0 THEN TableError("seek footer")
        ELSE IF Slice(footer, 5, 9) # footerMagicBytes THEN TableError("footer magic")
        ELSE IF start < 0 THEN TableError("seek table start")
        ELSE IF start + 8 > len THEN TableError("read header")
        ELSE IF Uint32(Slice(header, 0, 4)) # headerMagicNumber
             THEN TableError("header magic")
        ELSE IF frameSize # DeclaredSizeU32(numEntries) THEN TableError("size mismatch")
        ELSE IF entriesLen > 0 /\ start + 8 + entriesLen > len
             THEN TableError("read entries")
        ELSE IF chunks = "empty" THEN TableError("empty chunk")
        ELSE IF chunks = "panic" THEN TableError("panic")
        ELSE [err |-> "", table |-> [EmptyTable EXCEPT !.entries = entriesData]]

\* WriteTableToWriter declaring the size of the entries plus 8.
WriteTableToWriterShort(t, snk, failAt, partial) ==
    LET header == PutUint32(headerMagicNumber) \o PutUint32(Len(t.entries) + 8)
        footer == PutUint32(NumEntries(t)) \o <<0>> \o footerMagicBytes
        w1 == SinkWrite(snk, header, failAt = 1, partial)
        w2 == SinkWrite(w1.sink, t.entries, failAt = 2, partial)
        w3 == SinkWrite(w2.sink, footer, failAt = 3, partial)
    IN  IF w1.err THEN [sink |-> w1.sink, n |-> w1.n, err |-> TRUE]
        ELSE IF w2.err THEN [sink |-> w2.sink, n |-> w1.n + w2.n, err |-> TRUE]
        ELSE [sink |-> w3.sink, n |-> w1.n + w2.n + w3.n, err |-> w3.err]

\* WriteTableToWriter returning the bytes written after the header.
WriteTableToWriterCount(t, snk, failAt, partial) ==
    LET header == PutUint32(headerMagicNumber) \o PutUint32(Len(t.entries) + 9)
        footer == PutUint32(NumEntries(t)) \o <<0>> \o footerMagicBytes
        w1 == SinkWrite(snk, header, failAt = 1, partial)
        w2 == SinkWrite(w1.sink, t.entries, failAt = 2, partial)
        w3 == SinkWrite(w2.sink, footer, failAt = 3, partial)
    IN  IF w1.err THEN [sink |-> w1.sink, n |-> w1.n, err |-> TRUE]
        ELSE IF w2.err THEN [sink |-> w2.sink, n |-> w2.n, err |-> TRUE]
        ELSE [sink |-> w3.sink, n |-> w2.n + w3.n, err |-> w3.err]

\* WriteTableToWriter: three sink writes (header, entries, footer); the
\* failAt-th of them fails (0: none). n is the returned byte count.
WriteTableToWriter(t, snk, failAt, partial) ==
    LET header == PutUint32(headerMagicNumber) \o PutUint32(Len(t.entries) + 9)
        footer == PutUint32(NumEntries(t)) \o <<0>> \o footerMagicBytes
        w1 == SinkWrite(snk, header, failAt = 1, partial)
        w2 == SinkWrite(w1.sink, t.entries, failAt = 2, partial)
        w3 == SinkWrite(w2.sink, footer, failAt = 3, partial)
    IN  IF w1.err THEN [sink |-> w1.sink, n |-> w1.n, err |-> TRUE]
        ELSE IF w2.err THEN [sink |-> w2.sink, n |-> w1.n + w2.n, err |-> TRUE]
        ELSE [sink |-> w3.sink, n |-> w1.n + w2.n + w3.n, err |-> w3.err]

\* -------------------------------------------------------------- block codec
\* The zstd encoder as an opaque deterministic codec with two block types:
\* a run of two or more equal bytes becomes <<ZRle, length, byte>>, anything
\* else <<ZRaw, length>> followed by the bytes. The output is never empty,
\* and it may be longer than, as long as, or shorter than the input.
ZRaw == 200

ZRle == 201

EncodeAll(src) ==
    IF Len(src) >= 2 /\ \A i \in 1..Len(src) : src[i] = src[1]
    THEN <<ZRle, Len(src), src[1]>>
    ELSE <<ZRaw, Len(src)>> \o src

\* decoder.DecodeAll: the decoded bytes, or an error on a malformed block.
DecodeAll(c) ==
    IF Len(c) >= 2 /\ c[1] = ZRaw /\ c[2] = Len(c) - 2
    THEN [out |-> Drop(c, 2), err |-> FALSE]
    ELSE IF Len(c) = 3 /\ c[1] = ZRle
    THEN [out |-> [i \in 1..c[2] |-> c[3]], err |-> FALSE]
    ELSE [out |-> << >>, err |-> TRUE]

\* ------------------------------------------------------------------ state
VARIABLES
    \* writer (type writer): frameSize, frameBuffer, seekTable, isClosed, and
    \* the bytes its sink w has received
    frameSize, frameBuffer, seekTable, isClosed, sink,
    \* what the last writer call returned
    wRet,
    \* a Write in progress: its argument, the writer at its entry, and the
    \* local variable data (the bytes the loop has not taken yet)
    wCall,
    \* history: every byte passed to Write, whether a Write returned an error,
    \* the result of the first Close, whether Write was called after Close,
    \* and the number of sink failures so far
    input, failed, closeRet, lateWrite, faults,
    \* reader: "none" before NewReadSeeker, then "ok", "error" or "panic";
    \* the bytes of its source r.r; the fields of type reader
    rState, source, rd,
    \* what the last reader call returned
    rRet,
    \* history: the offset of the last repositioning and the bytes read since
    readBase, readLog,
    \* a Table under test and the last result of an operation on it
    tbl, tRet,
    \* the mutex of tbl.cached (a sync.Once) with the locals of the scan it
    \* runs, and the position of each thread that calls into tbl
    once, thr,
    \* a Table to serialize, the bytes its serialization left in the sink,
    \* whether that write succeeded ("none", "ok", "err"), and the last result
    cTable, cBytes, cWrote, cRet

wvars == <<frameSize, frameBuffer, seekTable, isClosed, sink, wRet, wCall,
           input, failed, closeRet, lateWrite, faults>>

rvars == <<rState, source, rd, rRet, readBase, readLog>>

tvars == <<tbl, tRet, once, thr>>

cvars == <<cTable, cBytes, cWrote, cRet>>

vars == <<wvars, rvars, tvars, cvars>>

\* The byte values the callers write.
DataBytes == {1, 2}

BoundedSeq(S, n) == UNION {[1..k -> S] : k \in 0..n}

\* ----------------------------------------------------------------- Writer
\* The loop of writer.Write. c holds frameSize, frameBuffer, seekTable and
\* sink; data is what is left of the argument; n the running count; the
\* failAt-th sink write from here on fails (0: none).
RECURSIVE WriteLoop(_, _, _, _, _)
WriteLoop(c, data, n, failAt, partial) ==
    IF Len(data) = 0 THEN [c |-> c, n |-> n, err |-> FALSE]
    ELSE IF Len(c.frameBuffer) = 0 /\ Len(data) >= c.frameSize
    THEN \* fast path
         LET toEncode == Take(data, c.frameSize)
             encoderBuffer == EncodeAll(toEncode)
             w == SinkWrite(c.sink, encoderBuffer, failAt = 1, partial)
         IN  IF w.err
             THEN [c |-> [c EXCEPT !.sink = w.sink], n |-> n + w.n, err |-> TRUE]
             ELSE WriteLoop(
                    [c EXCEPT !.sink = w.sink,
                              !.seekTable = AppendEntry(@,
                                  [DecompressedSize |-> Len(toEncode),
                                   CompressedSize |-> Len(encoderBuffer)])],
                    Drop(data, c.frameSize), n + w.n,
                    IF failAt > 0 THEN failAt - 1 ELSE 0, partial)
    ELSE \* fill frame buffer
         LET spaceLeft == c.frameSize - Len(c.frameBuffer)
             toWrite == Min(Len(data), spaceLeft)
             filled == c.frameBuffer \o Take(data, toWrite)
             rest == Drop(data, toWrite)
             n2 == n + toWrite
         IN  IF Len(filled) = c.frameSize
             THEN LET encoderBuffer == EncodeAll(filled)
                      w == SinkWrite(c.sink, encoderBuffer, failAt = 1, partial)
                  IN  IF w.err
                      THEN [c |-> [c EXCEPT !.frameBuffer = filled, !.sink = w.sink],
                            n |-> n2 - toWrite + w.n, err |-> TRUE]
                      ELSE WriteLoop(
                             [c EXCEPT !.sink = w.sink,
                                       !.frameBuffer = << >>,
                                       !.seekTable = AppendEntry(@,
                                           [DecompressedSize |-> Len(filled),
                                            CompressedSize |-> Len(encoderBuffer)])],
                             rest, n2, IF failAt > 0 THEN failAt - 1 ELSE 0, partial)
             ELSE WriteLoop([c EXCEPT !.frameBuffer = filled], rest, n2, failAt, partial)

\* writer.Write(data)
WriteCall(c, data, failAt, partial) == WriteLoop(c, data, 0, failAt, partial)

\* A final flush that drops the buffered bytes instead of writing them.
FlushFinalSkip(c, failAt, partial) ==
    [c |-> [c EXCEPT !.frameBuffer = << >>], err |-> FALSE, writes |-> 0]

\* A final flush that records the frame even when the sink refused it.
FlushFinalEager(c, failAt, partial) ==
    IF Len(c.frameBuffer) > 0
    THEN LET encoderBuffer == EncodeAll(c.frameBuffer)
             w == SinkWrite(c.sink, encoderBuffer, failAt = 1, partial)
         IN  [c |-> [c EXCEPT !.sink = w.sink,
                              !.frameBuffer = << >>,
                              !.seekTable = AppendEntry(@,
                                  [DecompressedSize |-> Len(c.frameBuffer),
                                   CompressedSize |-> Len(encoderBuffer)])],
              err |-> w.err, writes |-> 1]
    ELSE [c |-> c, err |-> FALSE, writes |-> 0]

\* The final flush of writer.Close: a non-empty frame buffer is encoded, sent
\* to the sink and recorded. writes is the number of sink writes made.
FlushFinal(c, failAt, partial) ==
    IF Len(c.frameBuffer) > 0
    THEN LET encoderBuffer == EncodeAll(c.frameBuffer)
             w == SinkWrite(c.sink, encoderBuffer, failAt = 1, partial)
         IN  IF w.err
             THEN [c |-> [c EXCEPT !.sink = w.sink], err |-> TRUE, writes |-> 1]
             ELSE [c |-> [c EXCEPT !.sink = w.sink,
                                   !.frameBuffer = << >>,
                                   !.seekTable = AppendEntry(@,
                                       [DecompressedSize |-> Len(c.frameBuffer),
                                        CompressedSize |-> Len(encoderBuffer)])],
                   err |-> FALSE, writes |-> 1]
    ELSE [c |-> c, err |-> FALSE, writes |-> 0]

\* Close with the closed flag set only once everything was written.
CloseCallRetry(c, failAt, partial) ==
    IF c.isClosed THEN [c |-> c, err |-> FALSE]
    ELSE LET fl == FlushFinal(c, failAt, partial)
             tw == WriteTableToWriter(fl.c.seekTable, fl.c.sink,
                                      IF failAt > 0 THEN failAt - fl.writes ELSE 0,
                                      partial)
         IN  IF fl.err THEN [c |-> fl.c, err |-> TRUE]
             ELSE IF tw.err THEN [c |-> [fl.c EXCEPT !.sink = tw.sink], err |-> TRUE]
             ELSE [c |-> [fl.c EXCEPT !.sink = tw.sink, !.isClosed = TRUE],
                   err |-> FALSE]

\* writer.Close(). c also holds isClosed. The failAt-th sink write fails.
CloseCall(c, failAt, partial) ==
    IF c.isClosed THEN [c |-> c, err |-> FALSE]
    ELSE LET fl == FlushFinal([c EXCEPT !.isClosed = TRUE], failAt, partial)
             tw == WriteTableToWriter(fl.c.seekTable, fl.c.sink,
                                      IF failAt > 0 THEN failAt - fl.writes ELSE 0,
                                      partial)
         IN  IF fl.err THEN [c |-> fl.c, err |-> TRUE]
             ELSE [c |-> [fl.c EXCEPT !.sink = tw.sink], err |-> tw.err]

WriterState ==
    [frameSize |-> frameSize, frameBuffer |-> frameBuffer, seekTable |-> seekTable,
     isClosed |-> isClosed, sink |-> sink]

\* NewWriter(w, frameSize): an empty buffer, an empty table, not closed.
\* No Write in progress.
NoCall == [arg |-> << >>, data |-> << >>, c0 |-> << >>]

WriterInit ==
    /\ frameSize \in 1..MaxFrame
    /\ frameBuffer = << >>
    /\ seekTable = EmptyTable
    /\ isClosed = FALSE
    /\ sink = << >>
    /\ wRet = [op |-> "none", n |-> 0, err |-> FALSE, len |-> 0]
    /\ wCall = NoCall
    /\ input = << >>
    /\ failed = FALSE
    /\ closeRet = "none"
    /\ lateWrite = FALSE
    /\ faults = 0

\* The fault plans a call may run under: no failure, or, while the budget
\* lasts, the failure of its k-th sink write.
FaultPlans(maxWrites) ==
    {0} \cup (IF faults < MaxFaults THEN 1..maxWrites ELSE {})

\* A call of Write(data) by the owner of the writer.
Write ==
    /\ rState = "none"
    /\ \E data \in BoundedSeq(DataBytes, MaxData - Len(input)),
          failAt \in FaultPlans(MaxData), partial \in PartialWrites :
          LET res == WriteCall(WriterState, data, failAt, partial)
          IN  /\ res.err = (failAt # 0)
              /\ (failAt = 0 => partial = 0)
              /\ frameBuffer' = res.c.frameBuffer
              /\ seekTable' = res.c.seekTable
              /\ sink' = res.c.sink
              /\ wRet' = [op |-> "write", n |-> res.n, err |-> res.err, len |-> Len(data)]
              /\ input' = input \o data
              /\ failed' = (failed \/ res.err)
              /\ lateWrite' = (lateWrite \/ isClosed)
              /\ faults' = faults + (IF res.err THEN 1 ELSE 0)
    /\ UNCHANGED <<frameSize, isClosed, closeRet, wCall, rvars, tvars, cvars>>

\* A call of Close().
Close ==
    /\ rState = "none"
    /\ \E failAt \in FaultPlans(4), partial \in PartialWrites :
          LET res == CloseCall(WriterState, failAt, partial)
          IN  /\ res.err = (failAt # 0)
              /\ (failAt = 0 => partial = 0)
              /\ frameBuffer' = res.c.frameBuffer
              /\ seekTable' = res.c.seekTable
              /\ sink' = res.c.sink
              /\ isClosed' = res.c.isClosed
              /\ wRet' = [op |-> "close", n |-> 0, err |-> res.err, len |-> 0]
              /\ closeRet' = IF closeRet # "none" THEN closeRet
                             ELSE IF res.err THEN "err" ELSE "ok"
              /\ faults' = faults + (IF res.err THEN 1 ELSE 0)
    /\ UNCHANGED <<frameSize, input, failed, lateWrite, wCall, rvars, tvars, cvars>>

\* ----------------------------------------------------------------- Reader
SeekStart == 0

SeekCurrent == 1

SeekEnd == 2

\* The zero value of the reader's runtime fields around a table. srcPos is
\* the read position of the source r.r (the index a bytes.Reader keeps).
NewReader(table, totalUncompressed, totalCompressed) ==
    [seekTable |-> table,
     srcPos |-> 0,
     offset |-> 0,
     totalCompressedDataSize |-> totalCompressed,
     totalUncompressedDataSize |-> totalUncompressed,
     currentFrameIndex |-> 0,
     currentFrameLoaded |-> FALSE,
     currentFrameBuffer |-> << >>,
     currentFrameReaded |-> 0,
     currentFrameAvailable |-> 0]

\* NewReadSeeker(r) over the in-memory source src: "ok" with the reader,
\* "error" (a returned error) or "panic" (a run-time panic).
NewReadSeeker(src) ==
    LET tr == ReadTableFromReadSeeker(src)
        last == NumEntries(tr.table) - 1
        lo == OffsetsByIndex(tr.table, last)
        lastOffsets == lo.to
        lastEntry == GetEntry(lo.t, last)
        totalUncompressedDataSize ==
            lastOffsets.EntryOffsetInDecompressed + lastEntry.DecompressedSize
        totalDataSize == Len(src)
        totalCompressedDataSize == totalDataSize - Size(lo.t)
        expectedSize == lastOffsets.EntryOffsetInCompressed + lastEntry.CompressedSize
        none == NewReader(EmptyTable, 0, 0)
    IN  IF tr.err = "panic" THEN [state |-> "panic", rd |-> none]
        ELSE IF tr.err # "" THEN [state |-> "error", rd |-> none]
        ELSE IF lo.panic THEN [state |-> "panic", rd |-> none]
        ELSE IF NumEntries(lo.t) > 0 /\ totalCompressedDataSize < expectedSize
             THEN [state |-> "error", rd |-> none]
        ELSE [state |-> "ok",
              rd |-> [NewReader(lo.t, totalUncompressedDataSize, totalCompressedDataSize)
                        EXCEPT !.srcPos = totalDataSize]]

\* The frame load with the loaded flag set ahead of the decoding.
LoadFrameMarkFirst(r, src) ==
    LET f == Find(r.seekTable, r.offset)
        entry == GetEntry(f.t, f.to.EntryIndex)
        from == f.to.EntryOffsetInCompressed
        dec == DecodeAll(Slice(src, from, from + entry.CompressedSize))
        rFound == [r EXCEPT !.seekTable = f.t]
    IN  IF ~f.found THEN [r |-> rFound, err |-> "find"]
        ELSE IF entry.CompressedSize > 0 /\ from + entry.CompressedSize > Len(src)
        THEN [r |-> rFound, err |-> "read"]
        ELSE [r |-> [rFound EXCEPT !.srcPos = from + entry.CompressedSize,
                                   !.currentFrameBuffer = dec.out,
                                   !.currentFrameLoaded = TRUE,
                                   !.currentFrameAvailable = Len(dec.out)],
              err |-> IF dec.err THEN "decode" ELSE ""]

\* The block under `if !r.currentFrameLoaded`: find the frame of r.offset,
\* fetch its compressed bytes from the source and decode them. err is ""
\* (the frame is loaded) or the step that failed. The source is left
\* positioned behind the bytes read from it.
LoadFrame(r, src) ==
    LET f == Find(r.seekTable, r.offset)
        entry == GetEntry(f.t, f.to.EntryIndex)
        from == f.to.EntryOffsetInCompressed
        dec == DecodeAll(Slice(src, from, from + entry.CompressedSize))
        rFound == [r EXCEPT !.seekTable = f.t]
        rRead == [rFound EXCEPT !.srcPos = from + entry.CompressedSize]
    IN  IF ~f.found THEN [r |-> rFound, err |-> "find"]
        ELSE IF entry.CompressedSize > 0 /\ from + entry.CompressedSize > Len(src)
        THEN [r |-> [rFound EXCEPT !.srcPos = IF from > Len(src) THEN from ELSE Len(src)],
              err |-> "read"]
        ELSE IF dec.err
        THEN [r |-> [rRead EXCEPT !.currentFrameBuffer = dec.out], err |-> "decode"]
        ELSE [r |-> [rRead EXCEPT !.currentFrameBuffer = dec.out,
                                   !.currentFrameLoaded = TRUE,
                                   !.currentFrameAvailable = Len(dec.out)],
              err |-> ""]

\* The frame load of a Read whose source fails: r.r.Seek returns an error
\* (fault "seek"), or the seek is done and io.ReadFull returns one ("read").
LoadFrameFailing(r, src, fault) ==
    LET f == Find(r.seekTable, r.offset)
        rFound == [r EXCEPT !.seekTable = f.t]
    IN  IF ~f.found THEN [r |-> rFound, err |-> "find"]
        ELSE IF fault = "seek" THEN [r |-> rFound, err |-> "seek"]
        ELSE [r |-> [rFound EXCEPT !.srcPos = f.to.EntryOffsetInCompressed],
              err |-> "read"]

\* The copy out of the loaded frame without the move to the next frame.
CopyOutNoAdvance(r, plen) ==
    LET availableToRead == r.currentFrameAvailable - r.currentFrameReaded
        toRead == Min(plen, availableToRead)
        data == Slice(r.currentFrameBuffer, r.currentFrameReaded,
                      r.currentFrameReaded + toRead)
        copied == [r EXCEPT !.currentFrameReaded = @ + toRead, !.offset = @ + toRead]
    IN  IF toRead < 0
        THEN [r |-> r, n |-> 0, err |-> "panic", data |-> << >>]
        ELSE [r |-> copied, n |-> toRead, err |-> "", data |-> data]

\* The copy out of the loaded frame and the move to the next frame.
CopyOut(r, plen) ==
    LET availableToRead == r.currentFrameAvailable - r.currentFrameReaded
        toRead == Min(plen, availableToRead)
        data == Slice(r.currentFrameBuffer, r.currentFrameReaded,
                      r.currentFrameReaded + toRead)
        copied == [r EXCEPT !.currentFrameReaded = @ + toRead, !.offset = @ + toRead]
    IN  IF toRead < 0
        THEN [r |-> r, n |-> 0, err |-> "panic", data |-> << >>]
        ELSE IF copied.currentFrameReaded >= copied.currentFrameAvailable
        THEN [r |-> [copied EXCEPT !.currentFrameIndex = @ + 1,
                                   !.currentFrameLoaded = FALSE,
                                   !.currentFrameReaded = 0,
                                   !.currentFrameAvailable = 0],
              n |-> toRead, err |-> "", data |-> data]
        ELSE [r |-> copied, n |-> toRead, err |-> "", data |-> data]

\* What a Read returns after the copy out of the loaded frame; loads is the
\* number of times the call went to the source for a frame.
ReadResult(c, loads) ==
    [r |-> c.r, n |-> c.n, err |-> c.err, data |-> c.data, loads |-> loads]

\* The rest of a Read that had to load its frame.
AfterLoad(l, plen) ==
    IF l.err # ""
    THEN [r |-> l.r, n |-> 0, err |-> l.err, data |-> << >>, loads |-> 1]
    ELSE ReadResult(CopyOut(l.r, plen), 1)

\* reader.Read fetching and decoding the frame on every call.
ReadCallReload(r, src, plen) ==
    IF r.currentFrameIndex >= NumEntries(r.seekTable)
    THEN [r |-> r, n |-> 0, err |-> "eof", data |-> << >>, loads |-> 0]
    ELSE AfterLoad(LoadFrame(r, src), plen)

\* reader.Read(p) with len(p) = plen. data is what was copied into p;
\* err is "" (nil), "eof" (io.EOF), the failing step, or "panic".
ReadCall(r, src, plen) ==
    IF r.currentFrameIndex >= NumEntries(r.seekTable)
    THEN [r |-> r, n |-> 0, err |-> "eof", data |-> << >>, loads |-> 0]
    ELSE IF r.currentFrameLoaded THEN ReadResult(CopyOut(r, plen), 0)
    ELSE AfterLoad(LoadFrame(r, src), plen)

\* reader.Read(p) over a source that fails when it is next used.
ReadFailing(r, src, plen, fault) ==
    IF r.currentFrameIndex >= NumEntries(r.seekTable)
    THEN [r |-> r, n |-> 0, err |-> "eof", data |-> << >>, loads |-> 0]
    ELSE IF r.currentFrameLoaded THEN ReadResult(CopyOut(r, plen), 0)
    ELSE LET l == LoadFrameFailing(r, src, fault)
         IN  [r |-> l.r, n |-> 0, err |-> l.err, data |-> << >>, loads |-> 1]

\* The cases of the switch of reader.Seek: the absolute target, or the error
\* returned. early is the return of a zero seek from the current position.
WhenceStart(r, offset) ==
    IF offset < 0
    THEN [err |-> "negative offset", early |-> FALSE, newOffset |-> 0]
    ELSE [err |-> "", early |-> FALSE, newOffset |-> offset]

\* case io.SeekCurrent without the zero-offset return.
WhenceCurrentNoZero(r, offset) ==
    IF offset < 0 /\ -offset > r.offset
    THEN [err |-> "negative offset", early |-> FALSE, newOffset |-> 0]
    ELSE [err |-> "", early |-> FALSE, newOffset |-> r.offset + offset]

WhenceCurrent(r, offset) ==
    IF offset = 0
    THEN [err |-> "", early |-> TRUE, newOffset |-> r.offset]
    ELSE IF offset < 0 /\ -offset > r.offset
    THEN [err |-> "negative offset", early |-> FALSE, newOffset |-> 0]
    ELSE [err |-> "", early |-> FALSE, newOffset |-> r.offset + offset]

WhenceEnd(r, offset) ==
    IF offset < 0 /\ -offset > r.totalUncompressedDataSize
    THEN [err |-> "negative offset", early |-> FALSE, newOffset |-> 0]
    ELSE [err |-> "", early |-> FALSE, newOffset |-> r.totalUncompressedDataSize + offset]

\* The switch without its default case: an unknown whence is taken as start.
ResolveWhenceNoDefault(r, offset, whence) ==
    IF whence = SeekCurrent THEN WhenceCurrent(r, offset)
    ELSE IF whence = SeekEnd THEN WhenceEnd(r, offset)
    ELSE WhenceStart(r, offset)

\* switch whence { ... }
ResolveWhence(r, offset, whence) ==
    IF whence = SeekStart THEN WhenceStart(r, offset)
    ELSE IF whence = SeekCurrent THEN WhenceCurrent(r, offset)
    ELSE IF whence = SeekEnd THEN WhenceEnd(r, offset)
    ELSE [err |-> "invalid whence", early |-> FALSE, newOffset |-> 0]

\* reader.Seek switching to another frame without clearing the loaded flag.
SeekCallKeepLoaded(r, offset, whence) ==
    LET w == ResolveWhence(r, offset, whence)
        newOffset == w.newOffset
        f == Find(r.seekTable, newOffset)
        tableOffsets == f.to
        frameStartOffset == tableOffsets.EntryOffsetInDecompressed
        rFound == [r EXCEPT !.seekTable = f.t]
        switched == [rFound EXCEPT !.currentFrameIndex = tableOffsets.EntryIndex]
    IN  IF w.err # "" THEN [r |-> r, n |-> 0, err |-> w.err]
        ELSE IF w.early THEN [r |-> r, n |-> r.offset, err |-> ""]
        ELSE IF newOffset > r.totalUncompressedDataSize
        THEN [r |-> r, n |-> 0, err |-> "offset beyond end of data"]
        ELSE IF ~f.found
        THEN [r |-> rFound, n |-> 0, err |-> "offset beyond end of data"]
        ELSE [r |-> [switched EXCEPT !.currentFrameReaded = newOffset - frameStartOffset,
                                     !.offset = newOffset],
              n |-> newOffset, err |-> ""]

\* reader.Seek(offset, whence)
SeekCall(r, offset, whence) ==
    LET w == ResolveWhence(r, offset, whence)
        newOffset == w.newOffset
        f == Find(r.seekTable, newOffset)
        tableOffsets == f.to
        frameStartOffset == tableOffsets.EntryOffsetInDecompressed
        rFound == [r EXCEPT !.seekTable = f.t]
        switched == IF tableOffsets.EntryIndex # r.currentFrameIndex
                    THEN [rFound EXCEPT !.currentFrameIndex = tableOffsets.EntryIndex,
                                        !.currentFrameLoaded = FALSE]
                    ELSE rFound
    IN  IF w.err # "" THEN [r |-> r, n |-> 0, err |-> w.err]
        ELSE IF w.early THEN [r |-> r, n |-> r.offset, err |-> ""]
        ELSE IF newOffset > r.totalUncompressedDataSize
        THEN [r |-> r, n |-> 0, err |-> "offset beyond end of data"]
        ELSE IF ~f.found
        THEN [r |-> rFound, n |-> 0, err |-> "offset beyond end of data"]
        ELSE [r |-> [switched EXCEPT !.currentFrameReaded = newOffset - frameStartOffset,
                                     !.offset = newOffset],
              n |-> newOffset, err |-> ""]

NoRet == [op |-> "none", n |-> 0, err |-> "", data |-> << >>]

ReaderInit ==
    /\ rState = "none"
    /\ source = << >>
    /\ rd = NewReader(EmptyTable, 0, 0)
    /\ rRet = NoRet
    /\ readBase = 0
    /\ readLog = << >>

\* NewReadSeeker over the stream the writer left in its sink, by a caller
\* that saw every Write and the Close succeed. From here on the writer is
\* left alone: it shares nothing with the reader.
Open ==
    /\ rState = "none"
    /\ closeRet = "ok"
    /\ ~failed
    /\ LET res == NewReadSeeker(sink)
       IN  /\ rState' = res.state
           /\ rd' = res.rd
    /\ source' = sink
    /\ rRet' = [NoRet EXCEPT !.op = "open"]
    /\ UNCHANGED <<readBase, readLog, wvars, tvars, cvars>>

\* A call of Read(p) with a buffer of 0..MaxBuf bytes.
Read ==
    /\ rState = "ok"
    /\ \E plen \in 0..MaxBuf :
          LET res == ReadCall(rd, source, plen)
          IN  /\ rd' = res.r
              /\ rRet' = [op |-> "read", n |-> res.n, err |-> res.err, data |-> res.data]
              /\ readLog' = readLog \o res.data
    /\ UNCHANGED <<rState, source, readBase, wvars, tvars, cvars>>

\* The arguments Seek is called with: offsets up to one byte past either end
\* of the longest input, and the three whences of package io plus an unknown one.
SeekOffsets == (0 - MaxData - 1)..(MaxData + 1)

Whences == {SeekStart, SeekCurrent, SeekEnd, 3}

\* The offsets a step calls Seek with: for a whence of package io, those that
\* resolve to a position from one byte before the start to one byte past the
\* end of the data; for an unknown whence, where the offset is never read, 0.
SeekBase(r, whence) ==
    IF whence = SeekStart THEN 0
    ELSE IF whence = SeekCurrent THEN r.offset
    ELSE r.totalUncompressedDataSize

StepOffsets(r, whence) ==
    IF whence \notin {SeekStart, SeekCurrent, SeekEnd} THEN {0}
    ELSE {o \in SeekOffsets :
            /\ SeekBase(r, whence) + o >= 0 - 1
            /\ SeekBase(r, whence) + o <= r.totalUncompressedDataSize + 1}

\* A call of Seek(offset, whence).
Seek ==
    /\ rState = "ok"
    /\ \E whence \in Whences : \E offset \in StepOffsets(rd, whence) :
          LET res == SeekCall(rd, offset, whence)
              moved == res.err = "" /\ ~(whence = SeekCurrent /\ offset = 0)
          IN  /\ rd' = res.r
              /\ rRet' = [op |-> "seek", n |-> res.n, err |-> res.err, data |-> << >>]
              /\ readBase' = IF moved THEN res.n ELSE readBase
              /\ readLog' = IF moved THEN << >> ELSE readLog
    /\ UNCHANGED <<rState, source, wvars, tvars, cvars>>

\* The table and codec variables are not part of the pipeline.
\* The threads that call into a shared Table.
MaxThreads == 2

Threads == 1..MaxThreads

\* No thread is inside a call on tbl, and the mutex of tbl.cached is free.
NoThreads ==
    /\ once = [m |-> 0, runs |-> 0, i |-> 0, offsets |-> << >>,
               compressedOffset |-> 0, decompressedOffset |-> 0]
    /\ thr = [t \in Threads |-> [pc |-> "idle", op |-> "none", arg |-> 0]]

IdleInit ==
    /\ tbl = EmptyTable
    /\ tRet = [op |-> "none", arg |-> 0, to |-> ZeroOffset, found |-> FALSE]
    /\ NoThreads
    /\ cTable = EmptyTable
    /\ cBytes = << >>
    /\ cWrote = "none"
    /\ cRet = [op |-> "none", n |-> 0, err |-> "", table |-> EmptyTable]

\* The pipeline: a writer, then a reader over the stream it produced.
Init == WriterInit /\ ReaderInit /\ IdleInit

Next == Write \/ Close \/ Open \/ Read \/ Seek

Spec == Init /\ [][Next]_vars

\* ------------------------------------------------- Table lookups on their own
\* The entries tables are built from.
EntryChoices ==
    { [CompressedSize |-> 1, DecompressedSize |-> 0],
      [CompressedSize |-> 2, DecompressedSize |-> 1],
      [CompressedSize |-> 300, DecompressedSize |-> 2] }

\* Table{} followed by n calls of AppendEntry, the i-th with pat[i mod Len(pat)].
RECURSIVE BuildTable(_, _)
BuildTable(n, pat) ==
    IF n = 0 THEN EmptyTable
    ELSE AppendEntry(BuildTable(n - 1, pat), pat[((n - 1) % Len(pat)) + 1])

FindTables ==
    { BuildTable(n, pat) :
        n \in 0..MaxFindEntries,
        pat \in [1..1 -> EntryChoices] \cup [1..2 -> EntryChoices] }

\* Sums of the fields of entries 0..i-1, read off the entry bytes.
RECURSIVE SumDecompressed(_, _)
SumDecompressed(t, i) ==
    IF i = 0 THEN 0
    ELSE SumDecompressed(t, i - 1) + GetEntry(t, i - 1).DecompressedSize

RECURSIVE SumCompressed(_, _)
SumCompressed(t, i) ==
    IF i = 0 THEN 0
    ELSE SumCompressed(t, i - 1) + GetEntry(t, i - 1).CompressedSize

TableInit ==
    /\ tbl \in FindTables
    /\ tRet = [op |-> "none", arg |-> 0, to |-> ZeroOffset, found |-> FALSE]
    /\ NoThreads

\* A call of tbl.Find(offset), for offsets up to one past the total size.
TFind ==
    /\ \E offset \in 0..(SumDecompressed(tbl, NumEntries(tbl)) + 1) :
          LET res == Find(tbl, offset)
          IN  /\ tbl' = res.t
              /\ tRet' = [op |-> "find", arg |-> offset, to |-> res.to, found |-> res.found]
    /\ UNCHANGED <<wvars, rvars, cvars, once, thr>>

IdleWriter == WriterInit /\ frameSize = 1

IdleCodec ==
    /\ cTable = EmptyTable
    /\ cBytes = << >>
    /\ cWrote = "none"
    /\ cRet = [op |-> "none", n |-> 0, err |-> "", table |-> EmptyTable]

InitTable == IdleWriter /\ ReaderInit /\ TableInit /\ IdleCodec

NextTable == TFind

SpecTable == InitTable /\ [][NextTable]_vars

\* ------------------------------------------------------ TableCodec on its own
\* Field values of the entries: zero, a value whose low byte is zero, and a
\* value with four different bytes.
FieldValues == {0, 256, 16909060}

RECURSIVE TableOf(_)
TableOf(es) ==
    IF Len(es) = 0 THEN EmptyTable
    ELSE AppendEntry(TableOf(Take(es, Len(es) - 1)), es[Len(es)])

CodecTables ==
    { TableOf(es) :
        es \in BoundedSeq([CompressedSize : FieldValues, DecompressedSize : FieldValues],
                          MaxCodecEntries) }

CodecInit ==
    /\ cTable \in CodecTables
    /\ cBytes = << >>
    /\ cWrote = "none"
    /\ cRet = [op |-> "none", n |-> 0, err |-> "", table |-> EmptyTable]

\* WriteTableToWriter(&cTable, sink) into an empty sink that may fail once.
CodecWrite ==
    /\ cWrote = "none"
    /\ \E failAt \in 0..3, partial \in PartialWrites :
          LET res == WriteTableToWriter(cTable, << >>, failAt, partial)
          IN  /\ (failAt = 0 => partial = 0)
              /\ cBytes' = res.sink
              /\ cWrote' = IF res.err THEN "err" ELSE "ok"
              /\ cRet' = [op |-> "write", n |-> res.n,
                          err |-> IF res.err THEN "write" ELSE "", table |-> EmptyTable]
    /\ UNCHANGED <<cTable, wvars, rvars, tvars>>

\* ReadTableFromReadSeeker over the bytes the sink holds.
CodecRead ==
    /\ cWrote # "none"
    /\ LET res == ReadTableFromReadSeeker(cBytes)
       IN  cRet' = [op |-> "read", n |-> 0, err |-> res.err, table |-> res.table]
    /\ UNCHANGED <<cTable, cBytes, cWrote, wvars, rvars, tvars>>

IdleTable ==
    /\ tbl = EmptyTable
    /\ tRet = [op |-> "none", arg |-> 0, to |-> ZeroOffset, found |-> FALSE]
    /\ NoThreads

InitCodec == IdleWriter /\ ReaderInit /\ IdleTable /\ CodecInit

NextCodec == CodecWrite \/ CodecRead

SpecCodec == InitCodec /\ [][NextCodec]_vars

\* --------------------------------------------- Readers over any byte source
\* NewReadSeeker takes any io.ReadSeeker. The sources here end in a well-formed
\* seek table whose entries need not agree with the bytes before it: the
\* region is any sequence of block-codec bytes (<<ZRaw, 1, 1>> is a frame),
\* the entries claim one or three compressed bytes and no or one
\* decompressed byte each.
StreamEntries == [CompressedSize : {1, 3}, DecompressedSize : {0, 1}]

StreamTables == { TableOf(es) : es \in BoundedSeq(StreamEntries, MaxStreamEntries) }

AnyStreams ==
    { WriteTableToWriter(t, region, 0, 0).sink :
        region \in BoundedSeq({ZRaw, 1}, MaxRegion), t \in StreamTables }

StreamInit ==
    /\ rState = "none"
    /\ source \in AnyStreams
    /\ rd = NewReader(EmptyTable, 0, 0)
    /\ rRet = NoRet
    /\ readBase = 0
    /\ readLog = << >>

\* NewReadSeeker(bytes.NewReader(source)).
OpenStream ==
    /\ rState = "none"
    /\ LET res == NewReadSeeker(source)
       IN  /\ rState' = res.state
           /\ rd' = res.rd
    /\ rRet' = [NoRet EXCEPT !.op = "open"]
    /\ UNCHANGED <<source, readBase, readLog, wvars, tvars, cvars>>

\* The ways the source of a reader fails.
SourceFaults == {"seek", "read"}

\* A call of Read(p) during which the source fails.
ReadFault ==
    /\ rState = "ok"
    /\ \E plen \in 0..MaxBuf, fault \in SourceFaults :
          LET res == ReadFailing(rd, source, plen, fault)
          IN  /\ rd' = res.r
              /\ rRet' = [op |-> "read", n |-> res.n, err |-> res.err, data |-> res.data]
              /\ readLog' = readLog \o res.data
    /\ UNCHANGED <<rState, source, readBase, wvars, tvars, cvars>>

InitStream == IdleWriter /\ StreamInit /\ IdleTable /\ IdleCodec

NextStream == OpenStream \/ Read \/ ReadFault \/ Seek

SpecStream == InitStream /\ [][NextStream]_vars

\* ------------------------------------- A Table edited between its lookups
\* Table{} under any sequence of AppendEntry, SetEntry, Find and
\* OffsetsByIndex by one caller.
TAppend ==
    /\ NumEntries(tbl) < MaxEditEntries
    /\ \E entry \in EntryChoices :
          /\ tbl' = AppendEntry(tbl, entry)
          /\ tRet' = [op |-> "append", arg |-> 0, to |-> ZeroOffset, found |-> FALSE]
    /\ UNCHANGED <<wvars, rvars, cvars, once, thr>>

TSet ==
    /\ \E index \in 0..(NumEntries(tbl) - 1), entry \in EntryChoices :
          /\ tbl' = SetEntry(tbl, index, entry)
          /\ tRet' = [op |-> "set", arg |-> index, to |-> ZeroOffset, found |-> FALSE]
    /\ UNCHANGED <<wvars, rvars, cvars, once, thr>>

\* tbl.OffsetsByIndex(index) for an index below NumEntries(); op is "panic"
\* when the call panics.
TOffsetsByIndex ==
    /\ \E index \in 0..(NumEntries(tbl) - 1) :
          LET res == OffsetsByIndex(tbl, index)
          IN  /\ tbl' = res.t
              /\ tRet' = [op |-> IF res.panic THEN "panic" ELSE "offsets",
                           arg |-> index, to |-> res.to, found |-> ~res.panic]
    /\ UNCHANGED <<wvars, rvars, cvars, once, thr>>

InitTableEdit == IdleWriter /\ ReaderInit /\ IdleTable /\ IdleCodec

NextTableEdit == TAppend \/ TSet \/ TFind \/ TOffsetsByIndex

SpecTableEdit == InitTableEdit /\ [][NextTableEdit]_vars

\* ------------------------------------- Write, one loop iteration at a time
\* The frame sizes NewWriter accepts: make([]byte, 0, frameSize) panics on a
\* negative capacity and takes every other int, zero included.
AcceptedFrameSizes == 0..MaxFrame

\* Whether the next iteration of the loop of Write writes a frame to the sink.
StepWrites(c, data) ==
    \/ Len(c.frameBuffer) = 0 /\ Len(data) >= c.frameSize
    \/ Len(c.frameBuffer) + Min(Len(data), c.frameSize - Len(c.frameBuffer)) = c.frameSize

\* The fast path of one iteration: the next frameSize bytes of data go to the
\* sink as a frame.
FastPath(c, data, n, fail, partial) ==
    LET toEncode == Take(data, c.frameSize)
        encoderBuffer == EncodeAll(toEncode)
        w == SinkWrite(c.sink, encoderBuffer, fail, partial)
    IN  IF w.err
        THEN [c |-> [c EXCEPT !.sink = w.sink], data |-> Drop(data, c.frameSize),
              n |-> n + w.n, err |-> TRUE]
        ELSE [c |-> [c EXCEPT !.sink = w.sink,
                              !.seekTable = AppendEntry(@,
                                  [DecompressedSize |-> Len(toEncode),
                                   CompressedSize |-> Len(encoderBuffer)])],
              data |-> Drop(data, c.frameSize), n |-> n + w.n, err |-> FALSE]

\* The other path of one iteration: data fills the frame buffer, which goes
\* to the sink as a frame when it holds frameSize bytes.
FillFrameBuffer(c, data, n, fail, partial) ==
    LET spaceLeft == c.frameSize - Len(c.frameBuffer)
        toWrite == Min(Len(data), spaceLeft)
        filled == c.frameBuffer \o Take(data, toWrite)
        rest == Drop(data, toWrite)
        encoderBuffer == EncodeAll(filled)
        w == SinkWrite(c.sink, encoderBuffer, fail, partial)
    IN  IF Len(filled) # c.frameSize
        THEN [c |-> [c EXCEPT !.frameBuffer = filled], data |-> rest,
              n |-> n + toWrite, err |-> FALSE]
        ELSE IF w.err
        THEN [c |-> [c EXCEPT !.frameBuffer = filled, !.sink = w.sink], data |-> rest,
              n |-> n + w.n, err |-> TRUE]
        ELSE [c |-> [c EXCEPT !.sink = w.sink,
                              !.frameBuffer = << >>,
                              !.seekTable = AppendEntry(@,
                                  [DecompressedSize |-> Len(filled),
                                   CompressedSize |-> Len(encoderBuffer)])],
              data |-> rest, n |-> n + toWrite, err |-> FALSE]

\* One iteration of the loop of Write, entered with len(data) > 0.
WriteStep(c, data, n, fail, partial) ==
    IF Len(c.frameBuffer) = 0 /\ Len(data) >= c.frameSize
    THEN FastPath(c, data, n, fail, partial)
    ELSE FillFrameBuffer(c, data, n, fail, partial)

Writing == wRet.op = "writing"

\* NewWriter(w, frameSize) with any frame size it accepts.
WriteLoopInit ==
    /\ frameSize \in AcceptedFrameSizes
    /\ frameBuffer = << >>
    /\ seekTable = EmptyTable
    /\ isClosed = FALSE
    /\ sink = << >>
    /\ wRet = [op |-> "none", n |-> 0, err |-> FALSE, len |-> 0]
    /\ wCall = NoCall
    /\ input = << >>
    /\ failed = FALSE
    /\ closeRet = "none"
    /\ lateWrite = FALSE
    /\ faults = 0

\* Write(data) is entered: n = 0.
WBegin ==
    /\ ~Writing
    /\ \E data \in BoundedSeq(DataBytes, MaxData - Len(input)) :
          /\ wCall' = [arg |-> data, data |-> data, c0 |-> WriterState]
          /\ wRet' = [op |-> "writing", n |-> 0, err |-> FALSE, len |-> Len(data)]
          /\ input' = input \o data
    /\ UNCHANGED <<frameSize, frameBuffer, seekTable, isClosed, sink, failed,
                   closeRet, lateWrite, faults, rvars, tvars, cvars>>

\* One iteration of the loop, which returns from Write when its sink write
\* fails. The table the model holds stops growing past MaxData + 1 entries.
WIterate ==
    /\ Writing
    /\ Len(wCall.data) > 0
    /\ NumEntries(seekTable) <= MaxData
    /\ \E fail \in BOOLEAN, partial \in PartialWrites :
          LET s == WriteStep(WriterState, wCall.data, wRet.n, fail, partial)
          IN  /\ fail => faults < MaxFaults /\ StepWrites(WriterState, wCall.data)
              /\ ~fail => partial = 0
              /\ frameBuffer' = s.c.frameBuffer
              /\ seekTable' = s.c.seekTable
              /\ sink' = s.c.sink
              /\ wCall' = [wCall EXCEPT !.data = s.data]
              /\ wRet' = [wRet EXCEPT !.op = IF s.err THEN "write" ELSE "writing",
                                      !.n = s.n, !.err = s.err]
              /\ failed' = (failed \/ s.err)
              /\ faults' = faults + (IF s.err THEN 1 ELSE 0)
    /\ UNCHANGED <<frameSize, isClosed, input, closeRet, lateWrite, rvars, tvars, cvars>>

\* The loop ends with len(data) = 0: return n, nil.
WReturn ==
    /\ Writing
    /\ Len(wCall.data) = 0
    /\ wRet' = [wRet EXCEPT !.op = "write"]
    /\ UNCHANGED <<frameSize, frameBuffer, seekTable, isClosed, sink, wCall, input,
                   failed, closeRet, lateWrite, faults, rvars, tvars, cvars>>

InitWriteLoop == WriteLoopInit /\ ReaderInit /\ IdleInit

NextWriteLoop == WBegin \/ WIterate \/ WReturn

\* The thread that called Write keeps running it: an iteration that can be
\* taken is taken, and so is the return.
SpecWriteLoop ==
    InitWriteLoop /\ [][NextWriteLoop]_vars /\ WF_vars(WIterate) /\ WF_vars(WReturn)

\* --------------------------------- Threads calling into one built Table
MaxSharedEntries == 2

\* The entries of the shared tables: a frame, and a frame of no data.
SharedEntries ==
    { [CompressedSize |-> 1, DecompressedSize |-> 1],
      [CompressedSize |-> 2, DecompressedSize |-> 0] }

\* Tables built by AppendEntry before any thread looks into them.
SharedTables == { TableOf(es) : es \in BoundedSeq(SharedEntries, MaxSharedEntries) }

\* The calls a thread makes: CacheOffsets(), Find(offset) for offsets up to
\* one past the total size, OffsetsByIndex(index) for the indices of the
\* entries and the one behind them.
ThreadCalls ==
    {<<"cache", 0>>}
    \cup {<<"find", offset>> : offset \in 0..(SumDecompressed(tbl, NumEntries(tbl)) + 1)}
    \cup {<<"index", index>> : index \in 0..NumEntries(tbl)}

\* The thread is at pc and goes to next.
Goto(t, pc, next) ==
    /\ thr[t].pc = pc
    /\ thr' = [thr EXCEPT ![t].pc = next]

\* A thread calls CacheOffsets, Find or OffsetsByIndex, each of which starts
\* with t.cached.Do.
TCall(t) ==
    /\ thr[t].pc = "idle"
    /\ \E call \in ThreadCalls :
          thr' = [thr EXCEPT ![t] = [pc |-> "load", op |-> call[1], arg |-> call[2]]]
    /\ UNCHANGED <<tbl, tRet, once, wvars, rvars, cvars>>

\* Once.Do reads done: set, it returns; clear, it goes for the mutex.
TLoadDone(t) ==
    /\ Goto(t, "load", IF tbl.cached THEN "use" ELSE "lock")
    /\ UNCHANGED <<tbl, tRet, once, wvars, rvars, cvars>>

\* A Once that runs the function whenever the first read of done found it
\* clear.
DoSlowRunsUnchecked(t) == TRUE

\* Under the mutex Once.Do reads done again and runs the function when it
\* is still clear.
DoSlowRuns(t) == ~t.cached

\* The thread gets the mutex when it is free, and starts the scan or skips it.
TLock(t) ==
    /\ once.m = 0
    /\ Goto(t, "lock", IF DoSlowRuns(tbl) THEN "scan" ELSE "unlock")
    /\ once' = IF DoSlowRuns(tbl)
               THEN [m |-> t, runs |-> once.runs + 1, i |-> 0, offsets |-> << >>,
                     compressedOffset |-> 0, decompressedOffset |-> 0]
               ELSE [once EXCEPT !.m = t]
    /\ UNCHANGED <<tbl, tRet, wvars, rvars, cvars>>

\* One iteration of the scan: offsets[i] and the running totals.
TScan(t) ==
    /\ once.i < NumEntries(tbl)
    /\ Goto(t, "scan", "scan")
    /\ once' = [once EXCEPT
                  !.offsets = @ \o << [EntryIndex |-> once.i,
                                       EntryOffsetInCompressed |-> once.compressedOffset,
                                       EntryOffsetInDecompressed |-> once.decompressedOffset] >>,
                  !.compressedOffset = @ + GetEntry(tbl, once.i).CompressedSize,
                  !.decompressedOffset = @ + GetEntry(tbl, once.i).DecompressedSize,
                  !.i = @ + 1]
    /\ UNCHANGED <<tbl, tRet, wvars, rvars, cvars>>

\* The scan is over: t.cachedOffsets = offsets.
TPublish(t) ==
    /\ once.i >= NumEntries(tbl)
    /\ Goto(t, "scan", "store")
    /\ tbl' = [tbl EXCEPT !.cachedOffsets = once.offsets]
    /\ UNCHANGED <<tRet, once, wvars, rvars, cvars>>

\* The deferred done.Store(1).
TStoreDone(t) ==
    /\ Goto(t, "store", "unlock")
    /\ tbl' = [tbl EXCEPT !.cached = TRUE]
    /\ UNCHANGED <<tRet, once, wvars, rvars, cvars>>

\* The deferred Unlock: Do returns.
TUnlock(t) ==
    /\ Goto(t, "unlock", "use")
    /\ once' = [once EXCEPT !.m = 0]
    /\ UNCHANGED <<tbl, tRet, wvars, rvars, cvars>>

\* What the rest of the call reads from t.cachedOffsets as it is now.
IndexRead(t, op, arg) ==
    IF op = "find"
    THEN LET r == FindCached(t, arg)
         IN  [op |-> "find", arg |-> arg, to |-> r.to, found |-> r.found]
    ELSE IF op = "index"
    THEN IF arg < 0 \/ arg >= Len(t.cachedOffsets)
         THEN [op |-> "panic", arg |-> arg, to |-> ZeroOffset, found |-> FALSE]
         ELSE [op |-> "offsets", arg |-> arg, to |-> t.cachedOffsets[arg + 1],
               found |-> TRUE]
    ELSE [op |-> "cache", arg |-> 0, to |-> ZeroOffset, found |-> FALSE]

\* The call reads the index, IndexRead(tbl, op, arg), and returns it.
TUse(t) ==
    /\ thr[t].pc = "use"
    /\ thr' = [thr EXCEPT ![t] = [pc |-> "idle", op |-> "none", arg |-> 0]]
    /\ UNCHANGED <<tbl, tRet, once, wvars, rvars, cvars>>

InitShared ==
    /\ IdleWriter /\ ReaderInit /\ IdleCodec
    /\ tbl \in SharedTables
    /\ tRet = [op |-> "none", arg |-> 0, to |-> ZeroOffset, found |-> FALSE]
    /\ NoThreads

NextShared ==
    \E t \in Threads :
        \/ TCall(t)
        \/ TLoadDone(t)
        \/ TLock(t)
        \/ TScan(t)
        \/ TPublish(t)
        \/ TStoreDone(t)
        \/ TUnlock(t)
        \/ TUse(t)

SpecShared == InitShared /\ [][NextShared]_vars

\* ================================================================== claims
\* A reader was constructed over the stream of a writer whose every Write
\* and whose Close succeeded, with no Write after the Close: the stream was
\* produced from the bytes of input.
StreamOfInput == rState # "none" /\ ~lateWrite

\* The last Read signalled end-of-data.
AtEndOfData == rRet.op = "read" /\ rRet.err = "eof"

\* C1: round trip. For every byte sequence written (the empty one included),
\* every frame size and every division into Write calls, a Reader can be
\* constructed over the closed stream, and reading it from the start until
\* end-of-data yields exactly the bytes written.
C1_RoundTrip ==
    StreamOfInput =>
        /\ rState = "ok"
        /\ (AtEndOfData /\ readBase = 0) => readLog = input

\* C2: seek correctness. On a Reader over a stream produced from input, in
\* every state, Seek(o, start) succeeds and returns o for every o in
\* 0..len(input), and the reads that follow a seek up to end-of-data return
\* the suffix input[o:].
C2_SeekCorrect ==
    (StreamOfInput /\ rState = "ok") =>
        /\ \A o \in 0..Len(input) :
              LET res == SeekCall(rd, o, SeekStart)
              IN  res.err = "" /\ res.n = o
        /\ AtEndOfData => readLog = Drop(input, readBase)

\* C3: after Find(offset) on a table: not found when the table is empty or
\* offset >= the sum of all decompressed sizes; otherwise found, with an entry
\* index i in [0, count) whose range [start_i, start_i + size_i) holds offset,
\* and with cumulative offsets equal to the sums over entries 0..i-1.
C3_Find ==
    tRet.op = "find" =>
        LET count == NumEntries(tbl)
            i == tRet.to.EntryIndex
        IN  IF count = 0 \/ tRet.arg >= SumDecompressed(tbl, count)
            THEN ~tRet.found
            ELSE /\ tRet.found
                 /\ i \in 0..(count - 1)
                 /\ SumDecompressed(tbl, i) <= tRet.arg
                 /\ tRet.arg < SumDecompressed(tbl, i) + GetEntry(tbl, i).DecompressedSize
                 /\ tRet.to.EntryOffsetInDecompressed = SumDecompressed(tbl, i)
                 /\ tRet.to.EntryOffsetInCompressed = SumCompressed(tbl, i)

\* A Find that went through the binary search, past entries of size zero,
\* and found an entry that is not the first.
C3_Witness ==
    /\ tRet.op = "find"
    /\ tRet.found
    /\ NumEntries(tbl) >= LinearThreshold
    /\ tRet.to.EntryIndex > 1
    /\ GetEntry(tbl, 0).DecompressedSize = 0

\* The i-th frame of the input under frame size F.
FrameOf(data, F, i) == Slice(data, i * F, Min((i + 1) * F, Len(data)))

\* C4: frame splitting. After successful writes of N bytes in all and a
\* successful Close, the table holds ceil(N/F) entries; each but the last has
\* decompressedSize F, the last N - F*(count-1); and each entry is that of
\* the i-th F-byte slice of the input, however the input was divided among
\* the Write calls.
C4_FrameSplitting ==
    (closeRet = "ok" /\ ~failed /\ ~lateWrite) =>
        LET N == Len(input)
            F == frameSize
            count == (N + F - 1) \div F
        IN  /\ NumEntries(seekTable) = count
            /\ \A i \in 0..(count - 1) :
                  LET e == GetEntry(seekTable, i)
                  IN  /\ e.DecompressedSize = IF i < count - 1 THEN F ELSE N - F * (count - 1)
                      /\ e.DecompressedSize \in 1..F
                      /\ e.CompressedSize = Len(EncodeAll(FrameOf(input, F, i)))
            /\ SumDecompressed(seekTable, count) = N

\* A closed writer that was given 3 bytes under frame size 2 and holds a
\* full frame and a last, shorter one.
C4_Witness ==
    /\ closeRet = "ok" /\ ~failed /\ ~lateWrite
    /\ Len(input) = 3 /\ frameSize = 2
    /\ NumEntries(seekTable) = 2
    /\ GetEntry(seekTable, 1).DecompressedSize = 1

\* The table entries as records.
EntriesOf(t) == [i \in 1..NumEntries(t) |-> GetEntry(t, i - 1)]

NoEmptyChunk(t) == \A i \in 0..(NumEntries(t) - 1) : GetEntry(t, i).CompressedSize # 0

C6_CloseIdempotent ==
    closeRet # "none" =>
        \A failAt \in 0..4, partial \in PartialWrites :
            CloseCall(WriterState, failAt, partial) = [c |-> WriterState, err |-> FALSE]

\* A second Close returned success after the first one failed.
C6_Witness ==
    /\ closeRet = "err"
    /\ wRet.op = "close"
    /\ ~wRet.err

\* The absolute target a Seek(offset, whence) asks for.
SeekTarget(r, offset, whence) ==
    IF whence = SeekStart THEN offset
    ELSE IF whence = SeekCurrent THEN r.offset + offset
    ELSE r.totalUncompressedDataSize + offset

\* C7: in every state of a Reader, Seek returns an error, and no position,
\* for every call whose target is negative or beyond totalDecompressedSize
\* and for every whence other than start, current and end.
C7_SeekRejects ==
    rState = "ok" =>
        \A offset \in SeekOffsets, whence \in Whences :
            LET target == SeekTarget(rd, offset, whence)
                res == SeekCall(rd, offset, whence)
            IN  (\/ whence \notin {SeekStart, SeekCurrent, SeekEnd}
                 \/ target < 0
                 \/ target > rd.totalUncompressedDataSize)
                => (res.err # "" /\ res.n = 0)

\* A Seek was rejected on a reader that had moved off the start.
C7_Witness ==
    /\ rState = "ok"
    /\ rRet.op = "seek"
    /\ rRet.err # ""
    /\ rd.offset > 0

\* C8: in every state of a Reader, Seek(0, current) succeeds, returns the
\* current offset and leaves every field of the reader as it is.
C8_SeekZeroCurrent ==
    rState = "ok" =>
        LET res == SeekCall(rd, 0, SeekCurrent)
        IN  /\ res.err = ""
            /\ res.n = rd.offset
            /\ res.r = rd

\* A Seek returned the end position of a non-empty stream.
C8_Witness ==
    /\ rState = "ok"
    /\ rRet.op = "seek" /\ rRet.err = ""
    /\ rd.totalUncompressedDataSize > 0
    /\ rRet.n = rd.totalUncompressedDataSize
    /\ rd.offset = rd.totalUncompressedDataSize

\* C9: constructing a Reader over the stream of a Writer closed with no
\* bytes written succeeds with totalDecompressedSize = 0, and the first Read
\* signals end-of-data.
C9_EmptyStream ==
    (StreamOfInput /\ input = << >>) =>
        /\ rState = "ok"
        /\ rd.totalUncompressedDataSize = 0
        /\ ReadCall(rd, source, 1).err = "eof"

\* C10: reading back a serialized table that has an entry, at any index,
\* with compressedSize = 0 returns the empty-entry format error; so every
\* entry of a Table that was read back has both fields non-zero.
C10_RejectsEmptyEntries ==
    (cRet.op = "read" /\ cWrote = "ok") =>
        /\ ~NoEmptyChunk(cTable) => cRet.err = "empty chunk"
        /\ cRet.err = "" =>
              \A i \in 0..(NumEntries(cRet.table) - 1) :
                  /\ GetEntry(cRet.table, i).CompressedSize # 0
                  /\ GetEntry(cRet.table, i).DecompressedSize # 0

\* The table at the tail of the reader's source, as the codec parses it.
SourceTable == ReadTableFromReadSeeker(source).table

\* The bytes of the source before its seek table.
DataRegionSize == Len(source) - Size(SourceTable)

\* C11: Reader construction fails exactly when the table is non-empty and the
\* sum of all compressedSize exceeds the stream length minus the serialized
\* table size; so in every constructed Reader each entry's compressed range
\* lies inside the data region before the seek table.
C11_ConstructionCheck ==
    (rState # "none" /\ ReadTableFromReadSeeker(source).err = "") =>
        LET count == NumEntries(SourceTable)
        IN  /\ (rState # "ok") <=>
                  (count > 0 /\ SumCompressed(SourceTable, count) > DataRegionSize)
            /\ rState = "ok" =>
                  \A i \in 0..(count - 1) :
                      /\ OffsetsByIndex(rd.seekTable, i).to.EntryOffsetInCompressed
                            = SumCompressed(SourceTable, i)
                      /\ SumCompressed(SourceTable, i)
                            + GetEntry(rd.seekTable, i).CompressedSize <= DataRegionSize

\* The same for sources whose table is not empty.
C11_NonEmptyTables ==
    NumEntries(SourceTable) > 0 => C11_ConstructionCheck

\* The four bytes of a value below 2^31, least significant first.
LittleEndian(v) ==
    << v % 256, (v \div 256) % 256, (v \div 65536) % 256, (v \div 16777216) % 256 >>

\* The i-th entry (0-based) as the eight bytes the format lays it out in.
EntryBytes(t, i) ==
    LittleEndian(GetEntry(t, i).CompressedSize)
        \o LittleEndian(GetEntry(t, i).DecompressedSize)

\* C12: WriteTableToWriter on a sink that does not fail emits, for a table of
\* n entries, exactly 8 + 8n + 9 bytes, which is Size(), and returns that
\* number: the header magic 0x184D2A5E little-endian, the declared size
\* 8n + 9 (the bytes after the header), the n entries in order, and a footer
\* of the count n, a descriptor byte 0 and the magic 0x8F92EAB1 little-endian.
C12_TableLayout ==
    cWrote = "ok" =>
        LET n == NumEntries(cTable)
        IN  /\ Len(cBytes) = 8 + 8 * n + 9
            /\ Len(cBytes) = Size(cTable)
            /\ cRet.op = "write" => cRet.n = 8 + 8 * n + 9
            /\ Slice(cBytes, 0, 4) = <<94, 42, 77, 24>>
            /\ Slice(cBytes, 4, 8) = LittleEndian(8 * n + 9)
            /\ Slice(cBytes, 4, 8) = LittleEndian(Len(cBytes) - 8)
            /\ \A i \in 0..(n - 1) :
                  Slice(cBytes, 8 + 8 * i, 16 + 8 * i) = EntryBytes(cTable, i)
            /\ Slice(cBytes, 8 + 8 * n, 12 + 8 * n) = LittleEndian(n)
            /\ cBytes[8 + 8 * n + 5] = 0
            /\ Slice(cBytes, 8 + 8 * n + 5, 8 + 8 * n + 9) = <<177, 234, 146, 143>>

\* A table of three entries, the last two different, was written in full.
C12_Witness ==
    /\ cWrote = "ok"
    /\ cRet.op = "write"
    /\ NumEntries(cTable) = 3
    /\ GetEntry(cTable, 1) # GetEntry(cTable, 2)
    /\ cRet.n = 41

\* The bytes of data that a Write(data) ending in res put into frames that
\* reached the sink whole: every entry appended holds frameSize bytes, the
\* first of them starting with what the buffer held before the call.
SentOf(res) ==
    LET appended == NumEntries(res.c.seekTable) - NumEntries(seekTable)
    IN  IF appended = 0 THEN 0 ELSE appended * frameSize - Len(frameBuffer)

\* The bytes of data in the frame whose sink write failed.
InFailedFrame(res, data) ==
    LET before == IF NumEntries(res.c.seekTable) = NumEntries(seekTable)
                  THEN Len(frameBuffer) ELSE 0
    IN  Min(frameSize - before, Len(data) - SentOf(res))

\* The sink failures a Write is put under: the k-th sink write of the call
\* fails after taking none, one or two of the three or more bytes offered.
WriteFaults == (1..(MaxData + 1)) \X (0..2)

\* C13: when the sink fails during Write(data), the count returned with the
\* error is a number of input bytes, between 0 and len(data): the bytes of
\* data consumed so far (those of the frames sent, with or without those of
\* the frame that failed), on the fast path and on the accumulation path;
\* never a count of compressed bytes.
C13_ErrorCount ==
    rState = "none" =>
        \A data \in BoundedSeq(DataBytes, MaxData), ft \in WriteFaults :
            LET res == WriteCall(WriterState, data, ft[1], ft[2])
            IN  res.err =>
                  /\ res.n \in 0..Len(data)
                  /\ res.n \in {SentOf(res), SentOf(res) + InFailedFrame(res, data)}

\* C14: a Write(data) that returns no error returns len(data), for every
\* length of data, frame size and fill level of the buffer, whichever path
\* the bytes took.
C14_WriteCount ==
    (wRet.op = "write" /\ ~wRet.err) => wRet.n = wRet.len

\* C15: once Close has been called on a Writer, no later Write or Close
\* sends bytes to the sink or appends an entry to the table: the serialized
\* seek table stays the last bytes of the stream.
C15_ClosedIsFinal ==
    (rState = "none" /\ isClosed) =>
        /\ \A data \in BoundedSeq(DataBytes, MaxData) :
              LET res == WriteCall(WriterState, data, 0, 0)
              IN  /\ res.c.sink = sink
                  /\ res.c.seekTable = seekTable
        /\ LET res == CloseCall(WriterState, 0, 0)
           IN  /\ res.c.sink = sink
               /\ res.c.seekTable = seekTable

\* C16: Read(buffer) in every reachable state of a Reader over a written
\* stream. With the current frame index past the last entry it returns zero
\* bytes and end-of-data. Otherwise, for a non-empty buffer, it returns
\* n = min(len(buffer), unread bytes of the current frame) with n >= 1, the
\* bytes being the original data at [offset, offset + n); offset and the
\* in-frame cursor advance by n; no byte of another frame is returned; and
\* when the frame is consumed the frame index advances by one and the loaded
\* flag is cleared.
C16_Read ==
    (StreamOfInput /\ rState = "ok") =>
        \A plen \in 0..MaxBuf :
            LET res == ReadCall(rd, source, plen)
                i == rd.currentFrameIndex
                frameEnd == SumDecompressed(rd.seekTable, i + 1)
                unread == frameEnd - rd.offset
                n == Min(plen, unread)
            IN  IF i >= NumEntries(rd.seekTable)
                THEN res.n = 0 /\ res.err = "eof" /\ res.data = << >> /\ res.r = rd
                ELSE plen >= 1 =>
                       /\ res.err = ""
                       /\ n >= 1
                       /\ res.n = n
                       /\ res.data = Slice(input, rd.offset, rd.offset + n)
                       /\ res.r.offset = rd.offset + n
                       /\ res.r.offset <= frameEnd
                       /\ IF res.r.offset = frameEnd
                          THEN /\ res.r.currentFrameIndex = i + 1
                               /\ ~res.r.currentFrameLoaded
                               /\ res.r.currentFrameReaded = 0
                          ELSE /\ res.r.currentFrameIndex = i
                               /\ res.r.currentFrameLoaded
                               /\ res.r.currentFrameReaded = rd.currentFrameReaded + n

\* A Read consumed the first, full frame of a stream of two frames: the
\* second frame is current and not loaded.
C16_Witness ==
    /\ StreamOfInput /\ rState = "ok"
    /\ rRet.op = "read" /\ rRet.err = "" /\ rRet.n >= 1
    /\ frameSize = 2 /\ Len(input) = 3
    /\ rd.offset = 2
    /\ rd.currentFrameIndex = 1
    /\ ~rd.currentFrameLoaded

\* The compressed bytes of entry i in the reader's source, decoded.
DecodedFrame(i) ==
    DecodeAll(Slice(source, SumCompressed(rd.seekTable, i),
                    SumCompressed(rd.seekTable, i + 1))).out

\* C17: the state of a Reader over a written stream after any reads and
\* seeks. If offset < totalDecompressedSize, the current frame index is that
\* of the entry whose decompressed range holds offset, and the in-frame
\* cursor is offset minus the start of that range; if offset equals
\* totalDecompressedSize, the current frame index is the entry count; and
\* when the loaded flag is set the frame buffer holds the decoding of the
\* frame at the current frame index.
C17_ReaderState ==
    (StreamOfInput /\ rState = "ok") =>
        LET t == rd.seekTable
            count == NumEntries(t)
            total == SumDecompressed(t, count)
            i == rd.currentFrameIndex
        IN  /\ total = rd.totalUncompressedDataSize
            /\ rd.offset \in 0..total
            /\ rd.offset < total =>
                  /\ i \in 0..(count - 1)
                  /\ SumDecompressed(t, i) <= rd.offset
                  /\ rd.offset < SumDecompressed(t, i + 1)
                  /\ rd.currentFrameReaded = rd.offset - SumDecompressed(t, i)
            /\ rd.offset = total => i = count
            /\ rd.currentFrameLoaded =>
                  /\ i \in 0..(count - 1)
                  /\ rd.currentFrameBuffer = DecodedFrame(i)
                  /\ rd.currentFrameBuffer = FrameOf(input, frameSize, i)
                  /\ rd.currentFrameAvailable = Len(rd.currentFrameBuffer)

\* A Seek moved the cursor inside the frame that was loaded.
C17_Witness ==
    /\ StreamOfInput /\ rState = "ok"
    /\ rRet.op = "seek" /\ rRet.err = ""
    /\ rd.currentFrameLoaded
    /\ rd.currentFrameIndex = 0
    /\ rd.currentFrameReaded = 1
    /\ rd.offset = 1

\* The index of the entry whose decompressed range holds the position.
FrameIndexOf(t, position) ==
    CHOOSE i \in 0..NumEntries(t) :
        i < NumEntries(t) =>
            /\ SumDecompressed(t, i) <= position
            /\ position < SumDecompressed(t, i + 1)

\* C18, of Seek: a Seek, accepted or rejected, leaves the position of the
\* source, the decoded frame and an unset loaded flag as they are. An
\* accepted Seek into the frame that is loaded only moves offset and cursor,
\* and the Read after it does not go to the source; an accepted Seek into
\* another frame than the current one clears the loaded flag and makes that
\* frame current.
SeekIsLazy(offset, whence) ==
    LET res == SeekCall(rd, offset, whence)
        target == SeekTarget(rd, offset, whence)
        t == rd.seekTable
        j == FrameIndexOf(t, target)
    IN  /\ res.r.srcPos = rd.srcPos
        /\ res.r.currentFrameBuffer = rd.currentFrameBuffer
        /\ res.r.currentFrameLoaded => rd.currentFrameLoaded
        /\ (res.err = "" /\ ~(whence = SeekCurrent /\ offset = 0)) =>
              IF j = rd.currentFrameIndex
              THEN /\ res.r = [rd EXCEPT !.offset = target,
                                         !.currentFrameReaded = target - SumDecompressed(t, j)]
                   /\ rd.currentFrameLoaded =>
                         \A plen \in 0..MaxBuf :
                             LET next == ReadCall(res.r, source, plen)
                             IN  /\ next.loads = 0
                                 /\ next.r.srcPos = rd.srcPos
                                 /\ next.r.currentFrameBuffer = rd.currentFrameBuffer
              ELSE /\ ~res.r.currentFrameLoaded
                   /\ res.r.currentFrameIndex = j

\* C18, of Read: a Read goes to the source only when no frame is loaded and
\* the current frame index is not past the last entry, and then once: it
\* reads the compressedSize bytes at the entry's cumulative compressed
\* offset and decodes them.
ReadIsLazy(plen) ==
    LET res == ReadCall(rd, source, plen)
        t == rd.seekTable
        i == rd.currentFrameIndex
    IN  IF rd.currentFrameLoaded \/ i >= NumEntries(t)
        THEN /\ res.loads = 0
             /\ res.r.srcPos = rd.srcPos
             /\ res.r.currentFrameBuffer = rd.currentFrameBuffer
        ELSE /\ res.loads = 1
             /\ res.r.srcPos = SumCompressed(t, i) + GetEntry(t, i).CompressedSize
             /\ res.r.currentFrameBuffer = DecodedFrame(i)

\* C18: lazy frame loading, in every state of a Reader.
C18_LazyLoading ==
    rState = "ok" =>
        /\ \A offset \in SeekOffsets, whence \in Whences : SeekIsLazy(offset, whence)
        /\ \A plen \in 0..MaxBuf : ReadIsLazy(plen)

\* A Seek went back to the start of the first frame while that frame was
\* loaded: the source still stands behind the frame's compressed bytes.
C18_Witness ==
    /\ rState = "ok"
    /\ rRet.op = "seek" /\ rRet.err = ""
    /\ frameSize = 2
    /\ rd.currentFrameLoaded
    /\ rd.offset = 0
    /\ rd.srcPos = SumCompressed(rd.seekTable, 1)

\* C19: the linear scan and the binary search of Find return the same
\* result (found flag, entry index, cumulative offsets) on every table and
\* for every offset, whatever the side of the 32-entry threshold the table
\* is on, tables with entries of decompressedSize 0 included.
C19_PathsAgree ==
    LET c == CacheOffsets(tbl)
    IN  \A offset \in 0..(SumDecompressed(tbl, NumEntries(tbl)) + 1) :
            FindLinear(c, offset, 1) = FindBinary(c, offset, 0, Len(c.cachedOffsets) - 1)

\* A Find took the linear scan on a table with entries of size zero, and
\* the binary search finds the same entry, which is not the first.
C19_Witness ==
    /\ tRet.op = "find" /\ tRet.found
    /\ NumEntries(tbl) \in 4..(LinearThreshold - 1)
    /\ GetEntry(tbl, 0).DecompressedSize = 0
    /\ tRet.to.EntryIndex >= 3
    /\ FindBinary(tbl, tRet.arg, 0, Len(tbl.cachedOffsets) - 1).to = tRet.to

\* C20: between calls the accumulation buffer of a Writer with F >= 1 holds
\* fewer than F bytes, after any sequence of Write calls, those that
\* returned a sink error included.
C20_BufferBelowFrameSize ==
    Len(frameBuffer) < frameSize

\* Where the frames of the table of `after` end in its sink.
SinkFramesEnd(after) ==
    Len(sink) - SumCompressed(after.seekTable, NumEntries(seekTable))
    + SumCompressed(after.seekTable, NumEntries(after.seekTable))

\* The sink after a call holds, behind what it held before, one whole frame
\* for each entry the call appended to the table, in order, and then `extra`
\* more bytes.
FramesThenExtra(after, extra) ==
    LET t == after.seekTable
        old == NumEntries(seekTable)
        base == Len(sink) - SumCompressed(t, old)
    IN  /\ Take(after.sink, Len(sink)) = sink
        /\ Take(t.entries, Len(seekTable.entries)) = seekTable.entries
        /\ \A k \in old..(NumEntries(t) - 1) :
              LET d == DecodeAll(Slice(after.sink, base + SumCompressed(t, k),
                                       base + SumCompressed(t, k + 1)))
              IN  ~d.err /\ Len(d.out) = GetEntry(t, k).DecompressedSize
        /\ Len(after.sink) = base + SumCompressed(t, NumEntries(t)) + extra

\* C21, of Write: the entries a Write appends are the frames the sink took
\* whole, in order; when the k-th sink write of the call fails, the call
\* has appended k - 1 entries and the sink holds nothing behind those frames
\* but what it took of the failed write.
WriteRecordsSent(data, failAt, partial) ==
    LET res == WriteCall(WriterState, data, failAt, partial)
        appended == NumEntries(res.c.seekTable) - NumEntries(seekTable)
    IN  IF res.err
        THEN /\ appended = failAt - 1
             /\ FramesThenExtra(res.c, partial)
        ELSE FramesThenExtra(res.c, 0)

\* C21, of Close: the entry of the final frame is appended when the sink
\* took the frame; when that write fails nothing is appended and nothing
\* more is sent, the seek table included.
CloseRecordsSent(failAt, partial) ==
    LET res == CloseCall(WriterState, failAt, partial)
        appended == NumEntries(res.c.seekTable) - NumEntries(seekTable)
        flushes == IF Len(frameBuffer) > 0 THEN 1 ELSE 0
    IN  IF res.err /\ failAt <= flushes
        THEN /\ appended = 0
             /\ FramesThenExtra(res.c, partial)
        ELSE /\ appended = flushes
             /\ FramesThenExtra(res.c, IF res.err THEN Len(res.c.sink) - SinkFramesEnd(res.c)
                                        ELSE Size(res.c.seekTable))
             /\ Len(res.c.sink) - SinkFramesEnd(res.c) \in 0..Size(res.c.seekTable)

\* C21: the Writer appends an Entry only after the sink took that frame's
\* compressed bytes without error, in Write and in Close; a failed sink
\* write ends the call with no Entry appended and no second attempt. For
\* every Write and Close the writer can be given next, under every fault
\* plan.
C21_EntriesAreSentFrames ==
    (rState = "none") =>
        /\ \A data \in BoundedSeq(DataBytes, MaxData - Len(input)),
              failAt \in FaultPlans(MaxData), partial \in PartialWrites :
                WriteRecordsSent(data, failAt, partial)
        /\ isClosed \/
             \A failAt \in FaultPlans(4), partial \in PartialWrites :
                CloseRecordsSent(failAt, partial)

\* A Write under frame size 1 failed on its second frame: the table holds
\* the entry of the first frame alone.
C21_Witness ==
    /\ wRet.op = "write" /\ wRet.err
    /\ frameSize = 1
    /\ Len(input) = 2
    /\ NumEntries(seekTable) = 1
    /\ ~isClosed

\* The fields of the reader that say where it stands.
Position(r) ==
    <<r.offset, r.currentFrameIndex, r.currentFrameLoaded, r.currentFrameReaded>>

\* C22: a Read or Seek that returns an error (no frame found, a failed seek
\* or read of the source, a frame that does not decode, a target out of
\* range or negative, an unknown whence) leaves offset, current frame
\* index, loaded flag and in-frame cursor as they were before the call.
C22_ErrorsKeepPosition ==
    rState = "ok" =>
        /\ \A plen \in 0..MaxBuf :
              LET res == ReadCall(rd, source, plen)
              IN  res.err # "" => Position(res.r) = Position(rd)
        /\ \A plen \in 0..MaxBuf, fault \in SourceFaults :
              LET res == ReadFailing(rd, source, plen, fault)
              IN  res.err # "" => Position(res.r) = Position(rd)
        /\ \A offset \in SeekOffsets, whence \in Whences :
              LET res == SeekCall(rd, offset, whence)
              IN  res.err # "" => Position(res.r) = Position(rd)

\* A Read failed on the second frame, which does not decode or is not
\* found, after the first frame was read.
C22_Witness ==
    /\ rState = "ok"
    /\ rRet.op = "read"
    /\ rRet.err \in {"decode", "find"}
    /\ rd.offset = 1
    /\ rd.currentFrameIndex = 1
    /\ ~rd.currentFrameLoaded

\* b with its i-th byte (1-based) raised by d modulo 256.
Poke(b, i, d) == [b EXCEPT ![i] = (@ + d) % 256]

\* Sources made from a serialized table b (17 bytes or more): b itself, b
\* behind another byte, b cut short, and b with one field changed: the
\* footer magic, the header magic, both, the declared size, the entry count
\* raised by one, and the entry count raised by 2^29.
Forgeries(b) ==
    { b, <<7>> \o b, Take(b, 0), Take(b, 8), Drop(b, 1),
      Poke(b, Len(b), 1),
      Poke(b, 1, 1),
      Poke(Poke(b, Len(b), 1), 1, 1),
      Poke(b, 5, 1),
      Poke(b, Len(b) - 8, 1),
      Poke(b, Len(b) - 5, 32) }

\* The entry count in the footer of a source of 9 bytes or more.
FooterCount(src) == Uint32(Slice(src, Len(src) - 9, Len(src) - 5))

\* 8 + count*8 + 9 > len, computed without a product that leaves 32 bits.
TableExceeds(count, len) == len < 17 \/ count > (len - 17) \div 8

\* C23: for every entry count found in a footer, read seeks back by the
\* exact integer 8 + count*8 + 9 and compares the declared size with the
\* exact integer count*8 + 9, nothing being reduced modulo 2^32: a table
\* longer than the source is a failed seek, a successful read returns a
\* Table of count entries, and read never indexes outside the entry bytes.
C23_ExactSizes ==
    cWrote = "ok" =>
        \A src \in Forgeries(cBytes) :
            (Len(src) >= 9 /\ Slice(src, Len(src) - 4, Len(src)) = footerMagicBytes) =>
                LET res == ReadTableFromReadSeeker(src)
                    count == FooterCount(src)
                IN  /\ res.err # "panic"
                    /\ TableExceeds(count, Len(src)) => res.err = "seek table start"
                    /\ res.err = "" => NumEntries(res.table) = count

\* The same for entry counts below 2^29, where 8 + count*8 + 9 is below 2^32.
C23_SmallCounts ==
    cWrote = "ok" =>
        \A src \in Forgeries(cBytes) \ {Poke(cBytes, Len(cBytes) - 5, 32)} :
            (Len(src) >= 9 /\ Slice(src, Len(src) - 4, Len(src)) = footerMagicBytes) =>
                LET res == ReadTableFromReadSeeker(src)
                    count == FooterCount(src)
                IN  /\ res.err # "panic"
                    /\ TableExceeds(count, Len(src)) => res.err = "seek table start"
                    /\ res.err = "" => NumEntries(res.table) = count

\* The table bytes at the tail of a source that holds count entries whole.
TailTable(src, count) == Drop(src, Len(src) - 17 - 8 * count)

\* Some entry among the count entries behind the header has compressedSize 0.
SomeEmptyEntry(tail, count) ==
    \E i \in 0..(count - 1) : Slice(tail, 8 + 8 * i, 12 + 8 * i) = <<0, 0, 0, 0>>

\* The first entry behind the header, if there is one, has compressedSize 0.
FirstEntryEmpty(tail, count) ==
    count > 0 /\ Slice(tail, 8, 12) = <<0, 0, 0, 0>>

\* What the fixed order of validation makes of a source: the cause of the
\* first step that fails, or "" when every step passes. emptyEntries is the
\* outcome of the entry check.
FirstFailure(src, emptyEntries) ==
    IF Len(src) < 9 THEN "seek footer"
    ELSE IF Slice(src, Len(src) - 4, Len(src)) # footerMagicBytes THEN "footer magic"
    ELSE IF TableExceeds(FooterCount(src), Len(src)) THEN "seek table start"
    ELSE IF Slice(TailTable(src, FooterCount(src)), 0, 4) # <<94, 42, 77, 24>>
         THEN "header magic"
    ELSE IF Uint32(Slice(TailTable(src, FooterCount(src)), 4, 8)) # FooterCount(src) * 8 + 9
         THEN "size mismatch"
    ELSE IF emptyEntries THEN "empty chunk"
    ELSE ""

\* C24: read validates in a fixed order and reports the cause of the first
\* failing step: the footer read (a source shorter than 9 bytes), the footer
\* magic, the seek to the table start (a table size larger than the
\* source), the header magic, the declared size against count*8 + 9, then
\* the entry check; a wrong footer magic is reported whatever the other
\* bytes are, and a Table is returned only when every step passed.
C24_ValidationOrder ==
    cWrote = "ok" =>
        \A src \in Forgeries(cBytes) :
            LET res == ReadTableFromReadSeeker(src)
                empty == /\ Len(src) >= 9
                         /\ ~TableExceeds(FooterCount(src), Len(src))
                         /\ SomeEmptyEntry(TailTable(src, FooterCount(src)), FooterCount(src))
            IN  res.err = FirstFailure(src, empty)

\* The same order for entry counts below 2^29 and with the entry check as
\* the code makes it, on the first entry alone.
C24_OrderSmallCounts ==
    cWrote = "ok" =>
        \A src \in Forgeries(cBytes) \ {Poke(cBytes, Len(cBytes) - 5, 32)} :
            LET res == ReadTableFromReadSeeker(src)
                empty == /\ Len(src) >= 9
                         /\ ~TableExceeds(FooterCount(src), Len(src))
                         /\ FirstEntryEmpty(TailTable(src, FooterCount(src)), FooterCount(src))
            IN  res.err = FirstFailure(src, empty)

\* The offsets of entry i by the table's current entries.
OffsetsOf(t, i) ==
    [EntryIndex |-> i,
     EntryOffsetInCompressed |-> SumCompressed(t, i),
     EntryOffsetInDecompressed |-> SumDecompressed(t, i)]

\* C25: after any sequence of append, set, find and offsetsByIndex calls on
\* a Table, the cached offset index, once built, has count() elements, the
\* i-th holding the sums of the fields of the current entries 0..i-1, and
\* Find and OffsetsByIndex answer by the current entries, also when entries
\* were appended or overwritten after the first lookup.
C25_CacheFollowsEntries ==
    LET count == NumEntries(tbl)
    IN  /\ tbl.cached =>
              /\ Len(tbl.cachedOffsets) = count
              /\ \A i \in 0..(count - 1) : tbl.cachedOffsets[i + 1] = OffsetsOf(tbl, i)
        /\ \A i \in 0..(count - 1) :
              LET res == OffsetsByIndex(tbl, i)
              IN  ~res.panic /\ res.to = OffsetsOf(tbl, i)
        /\ \A offset \in 0..(SumDecompressed(tbl, count) + 1) :
              LET res == Find(tbl, offset)
                  i == res.to.EntryIndex
              IN  IF offset >= SumDecompressed(tbl, count)
                  THEN ~res.found
                  ELSE /\ res.found
                       /\ i \in 0..(count - 1)
                       /\ res.to = OffsetsOf(tbl, i)
                       /\ SumDecompressed(tbl, i) <= offset
                       /\ offset < SumDecompressed(tbl, i + 1)

\* The same for a Table whose entries have not changed since the offset
\* index was built.
C25_UneditedTables ==
    (tbl.cached => tbl.cachedOffsets = ScanOffsets(tbl, 0, 0, 0)) => C25_CacheFollowsEntries

\* The bytes of the first k frames the sink holds, decoded, frame after
\* frame as the seek table records them.
RECURSIVE EmittedBytes(_)
EmittedBytes(k) ==
    IF k = 0 THEN << >>
    ELSE EmittedBytes(k - 1)
         \o DecodeAll(Slice(sink, SumCompressed(seekTable, k - 1),
                            SumCompressed(seekTable, k))).out

\* Every byte passed to the Writes so far is in an emitted frame or in the
\* accumulation buffer, in order.
ConsumedAll ==
    /\ Len(wCall.data) = 0
    /\ EmittedBytes(NumEntries(seekTable)) \o frameBuffer = input

\* An iteration of the loop of Write that does not return takes at least one
\* byte of data, or takes none and empties a frame buffer that an earlier
\* failed call left full: the pair (len(data), len(frameBuffer)) decreases
\* in the lexicographic order.
IterationTakesData ==
    (Writing /\ Writing') =>
        \/ Len(wCall'.data) < Len(wCall.data)
        \/ /\ Len(wCall'.data) = Len(wCall.data)
           /\ Len(frameBuffer') < Len(frameBuffer)

\* C26: Write(data) terminates for every len(data) and every frame size
\* NewWriter accepts: each iteration of its loop that does not return takes
\* data or, taking none, empties the frame buffer, so a call runs a bounded
\* number of iterations; and when the call has returned and the sink has
\* never failed, every byte of data is in an emitted frame or in the
\* accumulation buffer.
C26_WriteTerminates ==
    /\ [][IterationTakesData]_vars
    /\ []((wRet.op = "write" /\ ~failed) => ConsumedAll)

\* The same for the writers of a frame size of at least 1, whose Write
\* moreover returns under a thread that keeps running.
C26_PositiveFrameSizes ==
    /\ [][frameSize >= 1 => IterationTakesData]_vars
    /\ []((wRet.op = "write" /\ ~failed) => ConsumedAll)
    /\ (frameSize >= 1 /\ Writing) ~> ~Writing

\* A Write whose loop ran three iterations, crossing frame boundaries, has
\* returned with its data consumed.
C26_Returned ==
    /\ wRet.op = "write" /\ ~failed
    /\ Len(wCall.arg) = MaxData
    /\ NumEntries(seekTable) - NumEntries(wCall.c0.seekTable) >= 2
    /\ ConsumedAll

\* A Write in progress on a writer of frame size 0 has emitted frames and
\* taken nothing of its data.
C26_Spinning ==
    /\ Writing
    /\ frameSize = 0
    /\ NumEntries(seekTable) > NumEntries(wCall.c0.seekTable)
    /\ wCall.data = wCall.arg

\* The Table with the entries of t before any lookup.
Unscanned(t) == [t EXCEPT !.cached = FALSE, !.cachedOffsets = << >>]

\* What the same call returns when no other thread is about.
SequentialCall(t, op, arg) ==
    IF op = "find"
    THEN LET r == Find(Unscanned(t), arg)
         IN  [op |-> "find", arg |-> arg, to |-> r.to, found |-> r.found]
    ELSE IF op = "index"
    THEN LET r == OffsetsByIndex(Unscanned(t), arg)
         IN  [op |-> IF r.panic THEN "panic" ELSE "offsets", arg |-> arg, to |-> r.to,
              found |-> ~r.panic]
    ELSE [op |-> "cache", arg |-> 0, to |-> ZeroOffset, found |-> FALSE]

\* The threads inside the function that t.cached.Do runs.
Scanning == {t \in Threads : thr[t].pc \in {"scan", "store"}}

\* C27: with threads calling Find, OffsetsByIndex and CacheOffsets at once on
\* a built Table, the forward scan runs at most once and exactly once before
\* any call gets past t.cached.Do; a thread past it finds the scan complete
\* and reads what a sequential call returns; and once done is set the index
\* is the scan of the entries from then on.
C27_ScanRunsOnce ==
    /\ once.runs <= 1
    /\ Cardinality(Scanning) <= 1
    /\ tbl.cached =>
          /\ once.runs = 1
          /\ tbl.cachedOffsets = ScanOffsets(tbl, 0, 0, 0)
    /\ \A t \in Threads :
          thr[t].pc = "use" =>
              /\ tbl.cached
              /\ Scanning = {}
              /\ IndexRead(tbl, thr[t].op, thr[t].arg)
                    = SequentialCall(tbl, thr[t].op, thr[t].arg)

\* Two threads found done clear on a table of two entries: one has run the
\* scan and is past Do, the other waits for the mutex with a Find that the
\* index answers.
C27_Witness ==
    \E a, b \in Threads :
        /\ a # b
        /\ NumEntries(tbl) = 2
        /\ thr[a].pc = "use"
        /\ thr[b].pc = "lock" /\ thr[b].op = "find" /\ thr[b].arg = 0
        /\ once.runs = 1
        /\ SequentialCall(tbl, "find", 0).found

====
